---- MODULE Spec2Model ----
(***************************************************************************)
(* jaraco.classes.properties: the two descriptors NonDataProperty and      *)
(* classproperty (with its metaclass classproperty.Meta), modelled         *)
(* together with the part of Python's attribute protocol they hook into:   *)
(* MRO lookup, data / non-data descriptor precedence, type.__setattr__ and *)
(* object.__setattr__.                                                     *)
(*                                                                         *)
(* The state is a small heap: the classes of a program that uses the       *)
(* library (each with its metaclass, its base and its own __dict__), the   *)
(* instances created so far (each with its own __dict__), the descriptor   *)
(* objects, and the observable result of the last operation.               *)
(***************************************************************************)
EXTENDS Integers, Sequences, FiniteSets, TLC

VARIABLES classes, insts, descs, last

vars == <<classes, insts, descs, last>>

\* Bound: the number of instances a behaviour creates.
MaxInst == 2

\* Attribute names: the property name and the class state the accessors use.
Names == {"foo", "val"}

\* The name instances are written under (the property name).
PropNames == {"foo"}

(***************************************************************************)
(* Python values.  Every value is a record of the same shape; a reference  *)
(* to a descriptor object carries the descriptor's index in descs.         *)
(***************************************************************************)
None == [t |-> "None", v |-> 0]

Absent == [t |-> "absent", v |-> 0]

IntV(n) == [t |-> "int", v |-> n]

StrV(n) == [t |-> "str", v |-> n]

StrFoo == StrV(1)

StrBar == StrV(2)

Ref(d) == [t |-> "descr", v |-> d]

\* The plain values the operations write.
Vals == {IntV(3), IntV(4)}

\* The value stored directly in an instance's __dict__.
DictVals == {IntV(3)}

(***************************************************************************)
(* Objects an accessor is bound to or called with: a class (named by c) or *)
(* an instance (named by its index i in insts).                            *)
(***************************************************************************)
ClsObj(c) == [c |-> c, i |-> 0]

InstObj(i) == [c |-> "", i |-> i]

(***************************************************************************)
(* Function objects: what wraps the function (nothing, classmethod or      *)
(* staticmethod), its body and the number of its parameters.               *)
(***************************************************************************)
Fn(wrap, body, np) == [wrap |-> wrap, body |-> body, np |-> np]

NoFn == Fn("None", "None", 0)

classmethod(fn) == [fn EXCEPT !.wrap = "classmethod"]

staticmethod(fn) == [fn EXCEPT !.wrap = "staticmethod"]

\* def foo(cls): return cls.val
GetVal == Fn("function", "getval", 1)

\* def foo(cls, val): cls.val = val
SetVal == Fn("function", "setval", 2)

\* def foo(cls): return 'foo'
ConstFoo == Fn("function", "const_foo", 1)

\* def bar(): return 'bar'     (the function the doctest wraps in staticmethod)
ConstBar0 == Fn("function", "const_bar", 0)

\* def bar(cls): return 'bar'  (the plain function equivalent in result)
ConstBar == Fn("function", "const_bar", 1)

\* def foo(self): return 3
Three == Fn("function", "three", 1)

\* def foo(self): return self.val
SelfVal == Fn("function", "selfval", 1)

\* The getters and setters handed to classproperty, in every accepted form.
GetterForms ==
  {GetVal, classmethod(GetVal), ConstFoo, classmethod(ConstFoo),
   ConstBar, classmethod(ConstBar), staticmethod(ConstBar0)}

SetterForms == {SetVal, classmethod(SetVal)}

(***************************************************************************)
(* Results: of a read (outcome, value, was the descriptor's getter         *)
(* invoked) and of a write (outcome, heap afterwards, was a classproperty  *)
(* setter invoked).                                                        *)
(***************************************************************************)
RRes(out, val, g) == [out |-> out, val |-> val, g |-> g]

WRes(out, h, s) == [out |-> out, h |-> h, s |-> s]

EmptyDict == [k \in Names |-> Absent]

RECURSIVE MroLookup(_, _, _)
RECURSIVE type_getattribute(_, _, _)
RECURSIVE object_getattribute(_, _, _)
RECURSIVE CallGetter(_, _, _)
RECURSIVE classproperty_get(_, _, _, _)
RECURSIVE NonDataProperty_get(_, _, _, _)
RECURSIVE descriptor_get(_, _, _, _)
RECURSIVE setattr_class(_, _, _, _)
RECURSIVE Meta_setattr(_, _, _, _)
RECURSIVE classproperty_set(_, _, _, _)
RECURSIVE CallSetter(_, _, _, _)
RECURSIVE object_setattr(_, _, _, _)
RECURSIVE getattr_obj(_, _, _)
RECURSIVE setattr_obj(_, _, _, _)

(***************************************************************************)
(* classproperty._ensure_method                                            *)
(***************************************************************************)
\* Variant: a plain function is left unwrapped.
ensure_method_never_wrap(fn) == fn

ensure_method(fn) ==
  LET needs_method == fn.wrap \notin {"classmethod", "staticmethod"}
  IN  IF needs_method THEN classmethod(fn) ELSE fn

(***************************************************************************)
(* classproperty.setter: installs the normalised setter in the descriptor  *)
(* d of the descriptor table D and returns the descriptor itself.          *)
(***************************************************************************)
\* Variant: as the builtin property does, setter returns a copy.
classproperty_setter_copy(D, d, fset) ==
  [descs |-> Append(D, [D[d] EXCEPT !.fset = ensure_method(fset)]),
   ret |-> Len(D) + 1]

classproperty_setter(D, d, fset) ==
  [descs |-> [D EXCEPT ![d].fset = ensure_method(fset)], ret |-> d]

(***************************************************************************)
(* classproperty.__init__: a new descriptor object at the end of D.  type  *)
(* is "classproperty", or "classproperty_sub" for an instance of a         *)
(* subclass of classproperty.                                              *)
(***************************************************************************)
classproperty_init(D, type, fget, fset) ==
  LET self == [type |-> type, fget |-> ensure_method(fget), fset |-> fset]
      D1 == Append(D, self)
  IN  IF fset # NoFn THEN classproperty_setter(D1, Len(D1), fset).descs ELSE D1

(***************************************************************************)
(* NonDataProperty.__init__: a new descriptor object at the end of D; with *)
(* no getter the assertion fails and no object is made.                    *)
(***************************************************************************)
NonDataProperty_init(D, fget) ==
  IF fget = NoFn THEN D
  ELSE Append(D, [type |-> "NonDataProperty", fget |-> fget, fset |-> NoFn])

\* isinstance(self, classproperty): classproperty or a subclass of it.
IsClassProperty(self) == self.type \in {"classproperty", "classproperty_sub"}

(***************************************************************************)
(* A data descriptor is one whose type defines __set__: classproperty does *)
(* (and its subclasses inherit it), NonDataProperty does not.              *)
(***************************************************************************)
\* Variant: classproperty without __set__.
IsDataDescriptor_no_set(self) == FALSE

IsDataDescriptor(self) == IsClassProperty(self)

(***************************************************************************)
(* Attribute lookup along the MRO (single inheritance): the first own      *)
(* __dict__ entry for k in c, its base, ... or Absent.                     *)
(***************************************************************************)
MroLookup(h, c, k) ==
  IF h.classes[c].dict[k] # Absent THEN h.classes[c].dict[k]
  ELSE IF h.classes[c].base = "object" THEN Absent
  ELSE MroLookup(h, h.classes[c].base, k)

(***************************************************************************)
(* fn.__get__(None, owner): a classmethod binds owner as first argument; a *)
(* staticmethod and a plain function give the function with nothing bound. *)
(***************************************************************************)
Bind(fn, owner) == IF fn.wrap = "classmethod" THEN <<owner>> ELSE <<>>

(***************************************************************************)
(* The call of a getter with the arguments args.                           *)
(***************************************************************************)
CallGetter(h, fn, args) ==
  IF Len(args) # fn.np THEN RRes("TypeError", None, FALSE)
  ELSE CASE fn.body = "getval" ->
              [getattr_obj(h, args[1], "val") EXCEPT !.g = TRUE]
         [] fn.body = "selfval" ->
              [getattr_obj(h, args[1], "val") EXCEPT !.g = TRUE]
         [] fn.body = "const_foo" -> RRes("ok", StrFoo, TRUE)
         [] fn.body = "const_bar" -> RRes("ok", StrBar, TRUE)
         [] fn.body = "three" -> RRes("ok", IntV(3), TRUE)

(***************************************************************************)
(* classproperty.__get__                                                   *)
(***************************************************************************)
classproperty_get(h, d, instance, owner) ==
  CallGetter(h, h.descs[d].fget, Bind(h.descs[d].fget, ClsObj(owner)))

(***************************************************************************)
(* NonDataProperty.__get__ (obj is <<>> for None, <<i>> for instance i).   *)
(***************************************************************************)
\* Variant: __get__ returns the descriptor for instances too.
NonDataProperty_get_self(h, d, obj, objtype) == RRes("ok", Ref(d), FALSE)

NonDataProperty_get(h, d, obj, objtype) ==
  IF obj = <<>> THEN RRes("ok", Ref(d), FALSE)
  ELSE CallGetter(h, h.descs[d].fget, <<InstObj(obj[1])>>)

descriptor_get(h, d, obj, owner) ==
  IF IsClassProperty(h.descs[d]) THEN classproperty_get(h, d, obj, owner)
  ELSE NonDataProperty_get(h, d, obj, owner)

(***************************************************************************)
(* C.k read on a class object (type.__getattribute__).  The metaclasses    *)
(* type and Meta hold no descriptor for the names of the model, so the     *)
(* lookup goes to the MRO of C; an entry with __get__ is bound with        *)
(* instance None and owner C.                                              *)
(***************************************************************************)
type_getattribute(h, c, k) ==
  LET a == MroLookup(h, c, k)
  IN  IF a = Absent THEN RRes("AttributeError", None, FALSE)
      ELSE IF a.t = "descr" THEN descriptor_get(h, a.v, <<>>, c)
      ELSE RRes("ok", a, FALSE)

(***************************************************************************)
(* x.k read on an instance (object.__getattribute__): a data descriptor of *)
(* the class first, then the instance's own __dict__, then a non-data      *)
(* descriptor or plain class attribute.                                    *)
(***************************************************************************)
object_getattribute(h, i, k) ==
  LET c == h.insts[i].cls
      a == MroLookup(h, c, k)
  IN  IF a.t = "descr" /\ IsDataDescriptor(h.descs[a.v])
        THEN descriptor_get(h, a.v, <<i>>, c)
      ELSE IF h.insts[i].dict[k] # Absent
        THEN RRes("ok", h.insts[i].dict[k], FALSE)
      ELSE IF a.t = "descr" THEN descriptor_get(h, a.v, <<i>>, c)
      ELSE IF a # Absent THEN RRes("ok", a, FALSE)
      ELSE RRes("AttributeError", None, FALSE)

(***************************************************************************)
(* type(o): the class of an instance, the metaclass of a class.            *)
(***************************************************************************)
TypeOf(h, o) ==
  IF o.i # 0 THEN ClsObj(h.insts[o.i].cls)
  ELSE IF o.c \in DOMAIN h.classes THEN ClsObj(h.classes[o.c].meta)
  ELSE ClsObj("type")

(***************************************************************************)
(* type.__setattr__(C, k, v): the ordinary assignment on a class object;   *)
(* it stores v under k in C's own __dict__.                                *)
(***************************************************************************)
type_setattr(h, c, k, v) ==
  WRes("ok", [h EXCEPT !.classes[c].dict[k] = v], FALSE)

(***************************************************************************)
(* The call of a setter: cls.val = val is an assignment on the class       *)
(* object cls, dispatched on its metaclass.                                *)
(***************************************************************************)
CallSetter(h, fn, bound, value) ==
  LET args == bound \o <<value>>
  IN  IF Len(args) # fn.np THEN WRes("TypeError", h, FALSE)
      ELSE [setattr_obj(h, args[1], "val", args[2]) EXCEPT !.s = TRUE]

(***************************************************************************)
(* classproperty.__set__                                                   *)
(***************************************************************************)
\* Variant: the owning class is not resolved from an instance.
classproperty_set_no_resolve(h, d, owner, value) ==
  LET self == h.descs[d]
  IN  IF self.fset = NoFn THEN WRes("AttributeError", h, FALSE)
      ELSE CallSetter(h, self.fset, Bind(self.fset, owner), value)

\* Variant: a missing setter is silently ignored.
classproperty_set_no_check(h, d, owner, value) ==
  LET self == h.descs[d]
      owner2 == IF TypeOf(h, owner) # ClsObj("Meta") THEN TypeOf(h, owner)
                ELSE owner
  IN  IF self.fset = NoFn THEN WRes("ok", h, FALSE)
      ELSE CallSetter(h, self.fset, Bind(self.fset, owner2), value)

classproperty_set(h, d, owner, value) ==
  LET self == h.descs[d]
      owner2 == IF TypeOf(h, owner) # ClsObj("Meta") THEN TypeOf(h, owner)
                ELSE owner
  IN  IF self.fset = NoFn THEN WRes("AttributeError", h, FALSE)
      ELSE CallSetter(h, self.fset, Bind(self.fset, owner2), value)

(***************************************************************************)
(* classproperty.Meta.__setattr__                                          *)
(***************************************************************************)
\* Variant: the entry is looked up along the MRO, not in C's own __dict__.
Meta_setattr_mro(h, c, key, value) ==
  LET obj == MroLookup(h, c, key)
  IN  IF obj.t = "descr" /\ h.descs[obj.v].type = "classproperty"
        THEN classproperty_set(h, obj.v, ClsObj(c), value)
      ELSE type_setattr(h, c, key, value)

\* Variant: no interception.
Meta_setattr_passthrough(h, c, key, value) == type_setattr(h, c, key, value)

Meta_setattr(h, c, key, value) ==
  LET obj == h.classes[c].dict[key]
  IN  IF obj.t = "descr" /\ h.descs[obj.v].type = "classproperty"
        THEN classproperty_set(h, obj.v, ClsObj(c), value)
      ELSE type_setattr(h, c, key, value)

(***************************************************************************)
(* C.k = v on a class object: type(C).__setattr__(C, k, v).                *)
(***************************************************************************)
\* Variant: every class gets the interception of Meta.
setattr_class_always_meta(h, c, k, v) == Meta_setattr(h, c, k, v)

setattr_class(h, c, k, v) ==
  IF h.classes[c].meta = "Meta" THEN Meta_setattr(h, c, k, v)
  ELSE type_setattr(h, c, k, v)

(***************************************************************************)
(* x.k = v on an instance (object.__setattr__): the __set__ of a data      *)
(* descriptor found in the class, else the instance's own __dict__.        *)
(***************************************************************************)
object_setattr(h, i, k, v) ==
  LET a == MroLookup(h, h.insts[i].cls, k)
  IN  IF a.t = "descr" /\ IsDataDescriptor(h.descs[a.v])
        THEN classproperty_set(h, a.v, InstObj(i), v)
      ELSE WRes("ok", [h EXCEPT !.insts[i].dict[k] = v], FALSE)

(***************************************************************************)
(* o.k and o.k = v inside an accessor body, o a class object or, when the  *)
(* accessor was bound to one, an instance.  The built-in metaclass type    *)
(* has no attribute val and accepts none.                                  *)
(***************************************************************************)
getattr_obj(h, o, k) ==
  IF o.i # 0 THEN object_getattribute(h, o.i, k)
  ELSE IF o.c \in DOMAIN h.classes THEN type_getattribute(h, o.c, k)
  ELSE RRes("AttributeError", None, FALSE)

setattr_obj(h, o, k, v) ==
  IF o.i # 0 THEN object_setattr(h, o.i, k, v)
  ELSE IF o.c \in DOMAIN h.classes THEN setattr_class(h, o.c, k, v)
  ELSE WRes("TypeError", h, FALSE)

(***************************************************************************)
(* The programs the library is used in.  Each is a class body as in the    *)
(* docstrings of the module: Decorate is "@classproperty def foo" followed, *)
(* when fset is given, by "@foo.setter def foo"; the name foo is bound to  *)
(* what the last decorator returned.                                       *)
(***************************************************************************)
Decorate(D, type, fget, fset) ==
  LET D1 == classproperty_init(D, type, fget, NoFn)
  IN  IF fset = NoFn THEN [descs |-> D1, ret |-> Len(D1)]
      ELSE classproperty_setter(D1, Len(D1), fset)

Cls(meta, base, val, foo) ==
  [meta |-> meta, base |-> base,
   dict |-> [k \in Names |-> IF k = "val" THEN val ELSE foo]]

Last(op, c, i, k, v, out, ret, g, s) ==
  [op |-> op, c |-> c, i |-> i, k |-> k, v |-> v, out |-> out, ret |-> ret,
   g |-> g, s |-> s]

\* class X(metaclass=classproperty.Meta) of the docstring, and class Sub(X): pass
InitMeta ==
  \E fget \in {GetVal, classmethod(GetVal)} :
    LET p == Decorate(<<>>, "classproperty", fget, SetVal)
    IN  /\ descs = p.descs
        /\ classes = [c \in {"X", "Sub"} |->
                        IF c = "X" THEN Cls("Meta", "object", None, Ref(p.ret))
                        ELSE Cls("Meta", "X", Absent, Absent)]

\* class X of the docstring's legacy section (no metaclass)
InitLegacy ==
  LET p == Decorate(<<>>, "classproperty", GetVal, SetVal)
  IN  /\ descs = p.descs
      /\ classes = [c \in {"Legacy"} |-> Cls("type", "object", None, Ref(p.ret))]

\* class GetOnly(metaclass=classproperty.Meta) of the docstring, and the same
\* class body without the metaclass
InitGetOnly ==
  \E fget \in {GetVal, ConstBar}, meta \in {"Meta", "type"} :
    LET p == Decorate(<<>>, "classproperty", fget, NoFn)
    IN  /\ descs = p.descs
        /\ classes = [c \in {"GetOnly"} |->
                        Cls(meta, "object", StrBar, Ref(p.ret))]

\* class Static of the docstring, wrapping a classmethod or a staticmethod
InitStatic ==
  \E fget \in {classmethod(ConstFoo), staticmethod(ConstBar0)} :
    LET p == Decorate(<<>>, "classproperty", fget, NoFn)
    IN  /\ descs = p.descs
        /\ classes = [c \in {"Static"} |->
                        Cls("Meta", "object", Absent, Ref(p.ret))]

\* a class whose foo is an instance of a subclass of classproperty
InitSubtype ==
  LET p == Decorate(<<>>, "classproperty_sub", GetVal, SetVal)
  IN  /\ descs = p.descs
      /\ classes = [c \in {"Y"} |-> Cls("Meta", "object", None, Ref(p.ret))]

\* class X of NonDataProperty's docstring, with or without the metaclass
InitNonData ==
  \E fget \in {Three, SelfVal}, meta \in {"type", "Meta"} :
    /\ descs = NonDataProperty_init(<<>>, fget)
    /\ classes = [c \in {"P"} |-> Cls(meta, "object", None, Ref(1))]

Init ==
  /\ \/ InitMeta
     \/ InitLegacy
     \/ InitGetOnly
     \/ InitStatic
     \/ InitSubtype
     \/ InitNonData
  /\ insts = <<>>
  /\ last = Last("init", "", 0, "", None, "ok", None, FALSE, FALSE)

Heap == [classes |-> classes, insts |-> insts, descs |-> descs]

Install(h) ==
  /\ classes' = h.classes
  /\ insts' = h.insts
  /\ descs' = h.descs

(***************************************************************************)
(* The operations of a program on its classes and instances.               *)
(***************************************************************************)
\* x = C()
New(c) ==
  /\ Len(insts) < MaxInst
  /\ insts' = Append(insts, [cls |-> c, dict |-> EmptyDict])
  /\ last' = Last("new", c, Len(insts) + 1, "", None, "ok", None, FALSE, FALSE)
  /\ UNCHANGED <<classes, descs>>

\* C.k = v
ClassSet(c, k, v) ==
  LET r == setattr_class(Heap, c, k, v)
  IN  /\ Install(r.h)
      /\ last' = Last("class_set", c, 0, k, v, r.out, None, FALSE, r.s)

\* x.k = v
InstSet(i, k, v) ==
  LET r == object_setattr(Heap, i, k, v)
  IN  /\ Install(r.h)
      /\ last' = Last("inst_set", insts[i].cls, i, k, v, r.out, None, FALSE, r.s)

\* vars(x)[k] = v
InstDictStore(i, k, v) ==
  /\ insts' = [insts EXCEPT ![i].dict[k] = v]
  /\ last' = Last("dict_store", insts[i].cls, i, k, v, "ok", None, FALSE, FALSE)
  /\ UNCHANGED <<classes, descs>>

\* C.k
ClassGet(c, k) ==
  LET r == type_getattribute(Heap, c, k)
  IN  /\ last' = Last("class_get", c, 0, k, None, r.out, r.val, r.g, FALSE)
      /\ UNCHANGED <<classes, insts, descs>>

\* x.k
InstGet(i, k) ==
  LET r == object_getattribute(Heap, i, k)
  IN  /\ last' = Last("inst_get", insts[i].cls, i, k, None, r.out, r.val, r.g, FALSE)
      /\ UNCHANGED <<classes, insts, descs>>

\* d.setter(fset), d the descriptor object number d
AttachSetter(d, fset) ==
  LET r == classproperty_setter(descs, d, fset)
  IN  /\ IsDataDescriptor(descs[d])
      /\ descs' = r.descs
      /\ last' = Last("setter", "", d, "", None, "ok", Ref(r.ret), FALSE, FALSE)
      /\ UNCHANGED <<classes, insts>>

Next ==
  \/ \E c \in DOMAIN classes : New(c)
  \/ \E c \in DOMAIN classes, k \in Names, v \in Vals : ClassSet(c, k, v)
  \/ \E i \in DOMAIN insts, k \in PropNames, v \in Vals : InstSet(i, k, v)
  \/ \E i \in DOMAIN insts, k \in PropNames, v \in DictVals : InstDictStore(i, k, v)
  \/ \E c \in DOMAIN classes, k \in PropNames : ClassGet(c, k)
  \/ \E i \in DOMAIN insts, k \in PropNames : InstGet(i, k)
  \/ \E d \in DOMAIN descs, fset \in SetterForms : AttachSetter(d, fset)

Spec == Init /\ [][Next]_vars

(***************************************************************************)
(* Vocabulary of the properties.                                           *)
(***************************************************************************)
\* The heap after the step.
HeapP == [classes |-> classes', insts |-> insts', descs |-> descs']

\* The heap h after x = c().
HeapNew(h, c) ==
  [h EXCEPT !.insts = Append(h.insts, [cls |-> c, dict |-> EmptyDict])]

\* A read of foo through class c, through each instance whose class is c and
\* through an instance of c created now gives r.
ReadsAll(h, c, r) ==
  /\ type_getattribute(h, c, "foo") = r
  /\ \A i \in DOMAIN h.insts :
       h.insts[i].cls = c => object_getattribute(h, i, "foo") = r
  /\ object_getattribute(HeapNew(h, c), Len(h.insts) + 1, "foo") = r

\* The getter reads the class state val and the setter stores it.
GetSet(self) ==
  /\ self.fget = classmethod(GetVal)
  /\ self.fset = classmethod(SetVal)

\* Class c has metaclass Meta and defines foo as a classproperty with such
\* accessors.
Managed(h, c) ==
  /\ h.classes[c].meta = "Meta"
  /\ h.classes[c].dict["foo"].t = "descr"
  /\ h.descs[h.classes[c].dict["foo"].v].type = "classproperty"
  /\ GetSet(h.descs[h.classes[c].dict["foo"].v])

\* Class c (with any metaclass) has, by its MRO, foo as a classproperty with
\* such accessors.
HasProperty(h, c) ==
  /\ MroLookup(h, c, "foo").t = "descr"
  /\ IsClassProperty(h.descs[MroLookup(h, c, "foo").v])
  /\ GetSet(h.descs[MroLookup(h, c, "foo").v])

\* Class c has, by its MRO, foo as a classproperty without a setter.
GetterOnly(h, c) ==
  /\ MroLookup(h, c, "foo").t = "descr"
  /\ IsClassProperty(h.descs[MroLookup(h, c, "foo").v])
  /\ h.descs[MroLookup(h, c, "foo").v].fset = NoFn

\* Class c has no metaclass and its class body defined such a classproperty.
LegacyWithProperty(h, c) ==
  /\ h.classes[c].meta = "type"
  /\ \E d \in DOMAIN h.descs :
       h.descs[d].type = "classproperty" /\ GetSet(h.descs[d])

\* The reads of foo through class c and through its instances other than i,
\* existing or new, are the same in g and h.
OthersUnaffected(g, h, c, i) ==
  /\ type_getattribute(h, c, "foo") = type_getattribute(g, c, "foo")
  /\ \A j \in DOMAIN g.insts :
       (j # i /\ g.insts[j].cls = c)
         => object_getattribute(h, j, "foo") = object_getattribute(g, j, "foo")
  /\ object_getattribute(HeapNew(h, c), Len(h.insts) + 1, "foo")
       = object_getattribute(HeapNew(g, c), Len(g.insts) + 1, "foo")

\* The step stored v in the __dict__ of instance i of class c, and nothing else.
InstanceLocalWrite(i, c, v) ==
  /\ last'.out = "ok"
  /\ ~last'.s
  /\ insts' = [insts EXCEPT ![i].dict["foo"] = v]
  /\ UNCHANGED <<classes, descs>>
  /\ object_getattribute(HeapP, i, "foo") = RRes("ok", v, FALSE)
  /\ OthersUnaffected(Heap, HeapP, c, i)

\* Class c has, by its MRO, foo as a NonDataProperty.
NonData(h, c) ==
  /\ MroLookup(h, c, "foo").t = "descr"
  /\ h.descs[MroLookup(h, c, "foo").v].type = "NonDataProperty"

\* g(x) for an instance x of c: 3, or self.val, which for an instance with no
\* val of its own is the class's val.
GetterOf(h, c) ==
  IF h.descs[MroLookup(h, c, "foo").v].fget = Three
    THEN RRes("ok", IntV(3), TRUE)
    ELSE RRes("ok", MroLookup(h, c, "val"), TRUE)

\* What the getter fget bound to class c returns.
GetterBoundTo(h, c, fget) ==
  CASE fget.body = "getval" ->
         IF MroLookup(h, c, "val") = Absent
           THEN RRes("AttributeError", None, TRUE)
           ELSE RRes("ok", MroLookup(h, c, "val"), TRUE)
    [] fget.body = "const_foo" -> RRes("ok", StrFoo, TRUE)
    [] fget.body = "const_bar" -> RRes("ok", StrBar, TRUE)

\* <<wrapped getter, equivalent plain function>>
EquivalentGetters ==
  {<<classmethod(GetVal), GetVal>>, <<classmethod(ConstFoo), ConstFoo>>,
   <<classmethod(ConstBar), ConstBar>>, <<staticmethod(ConstBar0), ConstBar>>}

\* The heap in which class c has foo = classproperty(fget).
HeapWith(c, fget) ==
  LET D == classproperty_init(descs, "classproperty", fget, NoFn)
  IN  [classes |-> [classes EXCEPT ![c].dict["foo"] = Ref(Len(D))],
       insts |-> insts, descs |-> D]

\* The step is C.foo = v on a class without the metaclass whose own __dict__
\* holds such a classproperty under foo.
LegacyClassWrite ==
  /\ last'.op = "class_set"
  /\ last'.k = "foo"
  /\ classes[last'.c].meta = "type"
  /\ classes[last'.c].dict["foo"].t = "descr"
  /\ descs[classes[last'.c].dict["foo"].v].type = "classproperty"
  /\ GetSet(descs[classes[last'.c].dict["foo"].v])

\* The step stored the raw value in place of the descriptor, and nothing else.
DescriptorReplaced ==
  /\ last'.out = "ok"
  /\ ~last'.s
  /\ classes' = [classes EXCEPT ![last'.c].dict["foo"] = last'.v]
  /\ UNCHANGED <<insts, descs>>

\* Class c, defined with the property and no metaclass, now holds a raw value.
RawValueStored(h, c) ==
  /\ LegacyWithProperty(h, c)
  /\ h.classes[c].dict["foo"] \in Vals

(***************************************************************************)
(* C1.  For a class with metaclass classproperty.Meta that defines a       *)
(* classproperty whose getter reads class state and whose setter stores    *)
(* it: every write of V to the property through the class object succeeds, *)
(* and afterwards a read through the class object, through every instance  *)
(* of the class that exists and through an instance created afterwards     *)
(* returns V.                                                              *)
(***************************************************************************)
C1_ClassWriteShared ==
  [][(last'.op = "class_set" /\ last'.k = "foo" /\ Managed(Heap, last'.c))
       => /\ last'.out = "ok"
          /\ ReadsAll(HeapP, last'.c, RRes("ok", last'.v, TRUE))]_vars

C1_Witness ==
  /\ last.op = "class_set"
  /\ last.k = "foo"
  /\ last.out = "ok"
  /\ last.v = IntV(4)
  /\ Managed(Heap, last.c)
  /\ \E i \in DOMAIN insts : insts[i].cls = last.c /\ insts[i].dict["foo"] = IntV(3)

(***************************************************************************)
(* C2.  For a class with metaclass Meta that has a getter+setter           *)
(* classproperty, a write of V to the property on an instance x invokes    *)
(* the setter bound to type(x): the class state of type(x) becomes V, reads *)
(* through x, through type(x), and through every other and every new       *)
(* instance of type(x) return V, and no instance __dict__ changes.         *)
(***************************************************************************)
C2_InstanceWriteSetsClass ==
  [][(/\ last'.op = "inst_set"
      /\ last'.k = "foo"
      /\ classes[last'.c].meta = "Meta"
      /\ HasProperty(Heap, last'.c))
       => /\ last'.out = "ok"
          /\ last'.s
          /\ insts' = insts
          /\ classes'[last'.c].dict["val"] = last'.v
          /\ ReadsAll(HeapP, last'.c, RRes("ok", last'.v, TRUE))]_vars

C2_Witness ==
  /\ last.op = "inst_set"
  /\ last.k = "foo"
  /\ last.out = "ok"
  /\ last.s
  /\ classes[last.c].meta = "Meta"
  /\ HasProperty(Heap, last.c)
  /\ insts[last.i].dict["foo"] = Absent
  /\ \E j \in DOMAIN insts : j # last.i /\ insts[j].cls = last.c
  /\ type_getattribute(Heap, last.c, "foo") = RRes("ok", last.v, TRUE)

(***************************************************************************)
(* C9.  Meta.__setattr__ on a class C redirects the assignment of name k   *)
(* to the descriptor's __set__(C, value) exactly when C's own __dict__     *)
(* entry for k is an object whose type is exactly classproperty: the entry *)
(* is then not replaced, and the write either fails with AttributeError    *)
(* (no setter) or runs the setter bound to C.  For every other name (no    *)
(* own entry, or an entry of another type) the ordinary assignment stores  *)
(* the value under k in C's __dict__, changes nothing else and invokes no  *)
(* classproperty setter.                                                   *)
(***************************************************************************)
C9_MetaSetattr ==
  [][(last'.op = "class_set" /\ classes[last'.c].meta = "Meta")
       => LET c == last'.c
              k == last'.k
              v == last'.v
              obj == classes[c].dict[k]
          IN  IF obj.t = "descr" /\ descs[obj.v].type = "classproperty"
                THEN /\ classes'[c].dict[k] = obj
                     /\ IF descs[obj.v].fset = NoFn
                          THEN /\ last'.out = "AttributeError"
                               /\ ~last'.s
                               /\ UNCHANGED <<classes, insts, descs>>
                          ELSE /\ last'.out = "ok"
                               /\ last'.s
                               /\ classes'[c].dict["val"] = v
                ELSE /\ last'.out = "ok"
                     /\ ~last'.s
                     /\ classes' = [classes EXCEPT ![c].dict[k] = v]
                     /\ UNCHANGED <<insts, descs>>]_vars

C9_Witness ==
  /\ last.op = "class_set"
  /\ last.k = "foo"
  /\ last.c = "Sub"
  /\ classes["Sub"].dict["foo"] = last.v
  /\ ~last.s
  /\ classes["X"].dict["foo"].t = "descr"

(***************************************************************************)
(* C3 as stated.  For a classproperty that has no setter, every write to   *)
(* the property name, on the class object or on an instance, fails with    *)
(* AttributeError and changes nothing.                                     *)
(***************************************************************************)
C3_Original ==
  [][(/\ last'.op \in {"class_set", "inst_set"}
      /\ last'.k = "foo"
      /\ GetterOnly(Heap, last'.c))
       => /\ last'.out = "AttributeError"
          /\ UNCHANGED <<classes, insts, descs>>]_vars

(***************************************************************************)
(* C3 as amended.  For a classproperty that has no setter, a write to the  *)
(* property name fails with AttributeError when it targets an instance of  *)
(* the class, or the class object of a class whose metaclass is            *)
(* classproperty.Meta and whose own __dict__ holds the descriptor; the     *)
(* failed write changes nothing: the descriptor is still the class         *)
(* attribute and a read still returns the getter's value.                  *)
(***************************************************************************)
C3_GetOnlyWriteFails ==
  [][(/\ last'.op \in {"class_set", "inst_set"}
      /\ last'.k = "foo"
      /\ GetterOnly(Heap, last'.c)
      /\ \/ last'.op = "inst_set"
         \/ /\ classes[last'.c].meta = "Meta"
            /\ classes[last'.c].dict["foo"].t = "descr"
            /\ descs[classes[last'.c].dict["foo"].v].type = "classproperty")
       => /\ last'.out = "AttributeError"
          /\ ~last'.s
          /\ UNCHANGED <<classes, insts, descs>>
          /\ GetterOnly(HeapP, last'.c)
          /\ type_getattribute(HeapP, last'.c, "foo").g
          /\ type_getattribute(HeapP, last'.c, "foo")
               = type_getattribute(Heap, last'.c, "foo")]_vars

C3_Witness ==
  /\ last.op = "class_set"
  /\ last.k = "foo"
  /\ last.out = "AttributeError"
  /\ GetterOnly(Heap, last.c)
  /\ type_getattribute(Heap, last.c, "foo") = RRes("ok", StrBar, TRUE)

(***************************************************************************)
(* C4 as stated.  For a class without the metaclass that defines a         *)
(* getter+setter classproperty, a write of V to the property on an         *)
(* instance x stores V in x's own __dict__ and makes reads through x       *)
(* return V, while the reads through the class object and through every    *)
(* other instance, existing or new, are as before.                         *)
(***************************************************************************)
C4_Original ==
  [][(/\ last'.op = "inst_set"
      /\ last'.k = "foo"
      /\ LegacyWithProperty(Heap, last'.c))
       => InstanceLocalWrite(last'.i, last'.c, last'.v)]_vars

(***************************************************************************)
(* C4 as amended.  For a class without the metaclass that defines a        *)
(* getter+setter classproperty: once an assignment on the class object has *)
(* replaced the descriptor in the class __dict__ by a raw value, a write   *)
(* of V to the property on an instance x stores V in x's own __dict__ and  *)
(* makes reads through x return V, while reads through the class object    *)
(* and every other instance are as before.  As long as the descriptor is   *)
(* still the class attribute, the instance write invokes the setter bound  *)
(* to type(x) instead: V is then read through the class and through every  *)
(* instance, and x's __dict__ is unchanged.                                *)
(***************************************************************************)
C4_LegacyInstanceWrite ==
  [][(/\ last'.op = "inst_set"
      /\ last'.k = "foo"
      /\ LegacyWithProperty(Heap, last'.c))
       => IF classes[last'.c].dict["foo"].t = "descr"
            THEN /\ last'.out = "ok"
                 /\ last'.s
                 /\ insts' = insts
                 /\ classes'[last'.c].dict["val"] = last'.v
                 /\ ReadsAll(HeapP, last'.c, RRes("ok", last'.v, TRUE))
            ELSE InstanceLocalWrite(last'.i, last'.c, last'.v)]_vars

C4_Witness ==
  /\ last.op = "inst_set"
  /\ last.k = "foo"
  /\ LegacyWithProperty(Heap, last.c)
  /\ classes[last.c].dict["foo"] = IntV(4)
  /\ insts[last.i].dict["foo"] = IntV(3)
  /\ last.v = IntV(3)
  /\ \E j \in DOMAIN insts :
       /\ j # last.i
       /\ insts[j].cls = last.c
       /\ object_getattribute(Heap, j, "foo") = RRes("ok", IntV(4), FALSE)

(***************************************************************************)
(* C5.  For a class whose foo is a NonDataProperty wrapping a pure getter  *)
(* g: a read on an instance that was never written invokes g and returns   *)
(* g of that instance; a direct write of V to an instance x stores V in    *)
(* x's __dict__, and every read on x then returns V without invoking g;    *)
(* other instances, and an instance created afterwards, still read g.      *)
(***************************************************************************)
C5_NonDataProperty ==
  \A c \in DOMAIN classes :
    NonData(Heap, c) =>
      /\ \A i \in DOMAIN insts :
           insts[i].cls = c =>
             object_getattribute(Heap, i, "foo")
               = IF insts[i].dict["foo"] = Absent THEN GetterOf(Heap, c)
                 ELSE RRes("ok", insts[i].dict["foo"], FALSE)
      /\ object_getattribute(HeapNew(Heap, c), Len(insts) + 1, "foo")
           = GetterOf(Heap, c)
      /\ (last.op = "inst_set" /\ last.c = c /\ last.k = "foo")
           => /\ last.out = "ok"
              /\ ~last.s
              /\ insts[last.i].dict["foo"] = last.v
      /\ (last.op = "inst_get" /\ last.c = c /\ last.k = "foo")
           => /\ last.out = "ok"
              /\ last.g = (insts[last.i].dict["foo"] = Absent)
              /\ last.ret = IF last.g THEN GetterOf(Heap, c).val
                            ELSE insts[last.i].dict["foo"]

C5_Witness ==
  /\ last.op = "inst_get"
  /\ last.k = "foo"
  /\ NonData(Heap, last.c)
  /\ insts[last.i].dict["foo"] = IntV(4)
  /\ last.ret = IntV(4)
  /\ ~last.g
  /\ \E j \in DOMAIN insts :
       /\ j # last.i
       /\ insts[j].cls = last.c
       /\ object_getattribute(Heap, j, "foo") = RRes("ok", IntV(3), TRUE)

(***************************************************************************)
(* C6.  Whenever a classproperty descriptor is the attribute a class has   *)
(* under foo, a read of foo through the class object and a read through    *)
(* any instance of the class both invoke the getter bound to that class    *)
(* and return its result, whatever the instance's own __dict__ holds under *)
(* foo.                                                                    *)
(***************************************************************************)
C6_ReadAlwaysGetter ==
  \A c \in DOMAIN classes :
    (/\ MroLookup(Heap, c, "foo").t = "descr"
     /\ IsClassProperty(descs[MroLookup(Heap, c, "foo").v]))
      => /\ ReadsAll(Heap, c,
              GetterBoundTo(Heap, c, descs[MroLookup(Heap, c, "foo").v].fget))
         /\ (last.op \in {"class_get", "inst_get"} /\ last.c = c /\ last.k = "foo")
              => /\ last.g
                 /\ last.ret
                      = GetterBoundTo(Heap, c,
                          descs[MroLookup(Heap, c, "foo").v].fget).val

C6_Witness ==
  /\ last.op = "inst_get"
  /\ last.k = "foo"
  /\ MroLookup(Heap, last.c, "foo").t = "descr"
  /\ IsClassProperty(descs[MroLookup(Heap, last.c, "foo").v])
  /\ insts[last.i].dict["foo"] = IntV(3)
  /\ last.ret = IntV(4)
  /\ last.g

(***************************************************************************)
(* C7.  classproperty.setter(f) called on a getter-only descriptor returns *)
(* that same descriptor object, not a copy, with f (normalised) installed  *)
(* as its setter; a write that failed with AttributeError before the call  *)
(* succeeds after it, and a read after that write returns the written      *)
(* value (the getter reading the state the setter stores).                 *)
(***************************************************************************)
C7_SetterChaining ==
  [][(last'.op = "setter" /\ descs[last'.i].fset = NoFn)
       => /\ last'.ret = Ref(last'.i)
          /\ descs' = [descs EXCEPT ![last'.i].fset = classmethod(SetVal)]
          /\ UNCHANGED <<classes, insts>>
          /\ \A c \in DOMAIN classes, v \in Vals :
               setattr_class(Heap, c, "foo", v).out = "AttributeError"
                 => /\ setattr_class(HeapP, c, "foo", v).out = "ok"
                    /\ descs[last'.i].fget = classmethod(GetVal)
                         => ReadsAll(setattr_class(HeapP, c, "foo", v).h, c,
                                     RRes("ok", v, TRUE))
          /\ \A i \in DOMAIN insts, v \in Vals :
               object_setattr(Heap, i, "foo", v).out = "AttributeError"
                 => /\ object_setattr(HeapP, i, "foo", v).out = "ok"
                    /\ descs[last'.i].fget = classmethod(GetVal)
                         => ReadsAll(object_setattr(HeapP, i, "foo", v).h,
                                     insts[i].cls, RRes("ok", v, TRUE))]_vars

C7_Witness ==
  /\ "GetOnly" \in DOMAIN classes
  /\ classes["GetOnly"].meta = "Meta"
  /\ last.op = "class_set"
  /\ last.k = "foo"
  /\ last.out = "ok"
  /\ last.s
  /\ Len(descs) = 1
  /\ type_getattribute(Heap, "GetOnly", "foo") = RRes("ok", last.v, TRUE)

(***************************************************************************)
(* C8.  _ensure_method wraps a plain function in classmethod and returns a *)
(* classmethod or staticmethod unchanged, so applying it twice is applying *)
(* it once; and a classproperty built from a getter that is already a      *)
(* classmethod or a staticmethod reads, through the class and through an   *)
(* instance, as one built from the plain function equivalent in result.    *)
(***************************************************************************)
C8_WrappedGetterEquivalent ==
  /\ \A fn \in GetterForms \cup SetterForms :
       /\ fn.wrap = "function" => ensure_method(fn) = classmethod(fn)
       /\ fn.wrap \in {"classmethod", "staticmethod"} => ensure_method(fn) = fn
       /\ ensure_method(ensure_method(fn)) = ensure_method(fn)
  /\ \A c \in DOMAIN classes, p \in EquivalentGetters :
       /\ type_getattribute(HeapWith(c, p[1]), c, "foo").out
            \in {"ok", "AttributeError"}
       /\ type_getattribute(HeapWith(c, p[1]), c, "foo")
            = type_getattribute(HeapWith(c, p[2]), c, "foo")
       /\ \A i \in DOMAIN insts :
            insts[i].cls = c
              => object_getattribute(HeapWith(c, p[1]), i, "foo")
                   = object_getattribute(HeapWith(c, p[2]), i, "foo")

C8_Witness ==
  /\ "Static" \in DOMAIN classes
  /\ descs[1].fget = staticmethod(ConstBar0)
  /\ last.op = "inst_get"
  /\ last.k = "foo"
  /\ last.out = "ok"
  /\ last.ret = StrBar
  /\ last.g

(***************************************************************************)
(* C10 as stated.  For a class without the metaclass that defines a        *)
(* getter+setter classproperty, an assignment to the property name on the  *)
(* class object never invokes the setter: it replaces the descriptor in    *)
(* the class __dict__ by the raw value and leaves val unchanged, and from  *)
(* then on (while the raw value is the class attribute) reads through the  *)
(* class or through an instance return the stored raw value.               *)
(***************************************************************************)
C10_Original ==
  [][/\ LegacyClassWrite => DescriptorReplaced
     /\ \A c \in DOMAIN classes' :
          RawValueStored(HeapP, c)
            => ReadsAll(HeapP, c, RRes("ok", classes'[c].dict["foo"], FALSE))]_vars

(***************************************************************************)
(* C10 as amended.  As stated, except that from then on reads through the  *)
(* class, and through every instance that has no entry for the name in its *)
(* own __dict__, return the stored raw value; an instance that has such an *)
(* entry reads its own entry.                                              *)
(***************************************************************************)
C10_LegacyClassWrite ==
  [][/\ LegacyClassWrite => DescriptorReplaced
     /\ \A c \in DOMAIN classes' :
          RawValueStored(HeapP, c)
            => /\ type_getattribute(HeapP, c, "foo")
                    = RRes("ok", classes'[c].dict["foo"], FALSE)
               /\ \A i \in DOMAIN insts' :
                    insts'[i].cls = c
                      => object_getattribute(HeapP, i, "foo")
                           = IF insts'[i].dict["foo"] = Absent
                               THEN RRes("ok", classes'[c].dict["foo"], FALSE)
                               ELSE RRes("ok", insts'[i].dict["foo"], FALSE)
               /\ object_getattribute(HeapNew(HeapP, c), Len(insts') + 1, "foo")
                    = RRes("ok", classes'[c].dict["foo"], FALSE)]_vars

C10_Witness ==
  /\ last.op = "class_set"
  /\ last.k = "foo"
  /\ last.out = "ok"
  /\ ~last.s
  /\ RawValueStored(Heap, last.c)
  /\ classes[last.c].dict["val"] = IntV(3)
  /\ classes[last.c].dict["foo"] = IntV(4)
  /\ \E i \in DOMAIN insts :
       /\ insts[i].cls = last.c
       /\ object_getattribute(Heap, i, "foo") = RRes("ok", IntV(4), FALSE)

====
